---- MODULE Spec2Model ----
(***************************************************************************)
(* The data sources, widgets, selection state and client-side callbacks    *)
(* built by the example scripts 02_interactive_plots.py and                *)
(* 04_advanced_plots.py, and the colour index computed for the heatmap     *)
(* cells of 03_dashboard_layouts.py.                                       *)
(*                                                                         *)
(* Each create_* function builds a closed set of objects (its own          *)
(* ColumnDataSource(s), renderers, widgets and CustomJS callback) that     *)
(* shares nothing with the other functions, so a behaviour follows one     *)
(* of them, named by the variable scene.                                   *)
(*                                                                         *)
(* Numbers.  Angles are counted in quarter turns (pi/2), where the sine    *)
(* is exactly 0, 1, 0, -1; slider values are whole numbers of their        *)
(* range.  Alpha values are counted in tenths (0.8 is 8, 1.0 is 10).       *)
(* JavaScript arrays are 0-based: row i is element i+1 of a sequence.      *)
(* Correlations are counted in hundredths (0.85 is 85); divisions are      *)
(* exact, as they are in floating point for these values.                  *)
(***************************************************************************)
EXTENDS Integers, Sequences, FiniteSets, TLC

VARIABLES
    scene,       \* which create_* function built the objects of this behaviour
    data,        \* source name -> (column name -> sequence of values)
    selected,    \* source name -> source.selected.indices, as a set of rows
    slider,      \* slider name -> its value
    stack,       \* the signal dispatches in progress, innermost last
    batch,       \* slider changes of the current external batch still to apply
    batchSize,   \* number of slider changes the current batch began with
    recomputes,  \* runs of the sine callback's loop since the batch began
    emits,       \* source.change.emit() calls of the sine callback since then
    drawn,       \* renderer -> the columns and selection it last drew
    cell,        \* the heatmap cell being coloured: which dashboard, and its value
    colorIdx     \* the index into Spectral6 computed for the cell, once computed

vars == <<scene, data, selected, slider, stack, batch, batchSize,
          recomputes, emits, drawn, cell, colorIdx>>

---------------------------------------------------------------------------
\* Bounds of the model.

\* Rows of every scatter/line/node source (the scripts use 100, 300 and 34).
NRows == 3
\* Bins of the histogram source (the script uses 20).
NBins == 2
\* Largest modelled value of the frequency and amplitude sliders.
MaxFreq == 2
MaxAmp == 2
\* Largest modelled phase, in quarter turns.
MaxPhase == 3
\* How far below 0 and above 100 the modelled sales values reach.
SalesMargin == 25
\* How far below -1 and above 1 the modelled correlations reach, in hundredths.
CorrMargin == 45

---------------------------------------------------------------------------
\* Program constants.

\* data['alpha'][i] = 0.8, in tenths.
AlphaReset == 8
\* data['alpha'][selected[i]] = 1.0, in tenths.
AlphaHighlight == 10
\* Math.sin has period 2*pi: four quarter turns.
QuarterTurns == 4

\* What a JavaScript array holds at an index below its length that was
\* never written.
Undefined == "undefined"

Scenes == {"sine", "crossfilter", "network", "dashboard"}
Sources == {"sine", "cross", "hist", "node"}
Rows == 0 .. (NRows - 1)

---------------------------------------------------------------------------
\* create_interactive_sine_wave

\* Math.sin at k quarter turns.
SinQ(k) ==
    CASE k % QuarterTurns = 0 -> 0
      [] k % QuarterTurns = 1 -> 1
      [] k % QuarterTurns = 2 -> 0
      [] OTHER -> 0 - 1

\* x = np.linspace(0, 4*np.pi, 100): evenly spaced from 0.
Linspace == [i \in 1 .. NRows |-> i - 1]

\* y = np.sin(x)
InitialY == [i \in 1 .. NRows |-> SinQ(Linspace[i])]

SliderNames == {"freq", "amp", "phase"}

SliderRange(s) ==
    CASE s = "freq" -> 1 .. MaxFreq
      [] s = "amp" -> 1 .. MaxAmp
      [] OTHER -> 0 .. MaxPhase

\* Slider(value=1.0), Slider(value=1.0), Slider(value=0)
SliderInit == [s \in SliderNames |-> IF s = "phase" THEN 0 ELSE 1]

\* A callback that forgets the phase slider.
CallbackLoopNoPhase(xs, ys, freq, amp, phase) ==
    [i \in 1 .. Len(ys) |-> IF i <= Len(xs) THEN amp * SinQ(freq * xs[i]) ELSE ys[i]]

\* for (let i = 0; i < x.length; i++) y[i] = amp * Math.sin(freq * x[i] + phase);
\* x and y are typed arrays of one length; the loop writes y in place.
CallbackLoop(xs, ys, freq, amp, phase) ==
    [i \in 1 .. Len(ys) |->
        IF i <= Len(xs) THEN amp * SinQ(freq * xs[i] + phase) ELSE ys[i]]

\* A registration that leaves out two of the sliders.
SubscribedFreqOnly == {"freq"}

\* freq_slider.js_on_change, amp_slider.js_on_change, phase_slider.js_on_change
Subscribed == {"freq", "amp", "phase"}

---------------------------------------------------------------------------
\* create_crossfilter_plot

\* The x column of the scatter source, as the bin each row falls in.
CrossX == [i \in 1 .. NRows |-> (i - 1) % NBins]

\* hist, edges = np.histogram(x, bins=20): rows per bin, computed once.
HistTop == [b \in 1 .. NBins |-> Cardinality({i \in 1 .. NRows : CrossX[i] = b - 1})]

---------------------------------------------------------------------------
\* The sources as constructed.

\* ColumnDataSource(data=dict(x=x, y=y)) of the sine wave.
SineData == [x |-> Linspace, y |-> InitialY]

\* ColumnDataSource(data=dict(x=x, y=y, colors=colors)) of plot 1.
CrossData ==
    [x |-> CrossX,
     y |-> [i \in 1 .. NRows |-> i - 1],
     colors |-> [i \in 1 .. NRows |-> "red"]]

\* hist_source: top=hist, left=edges[:-1], right=edges[1:].
HistData ==
    [top |-> HistTop,
     left |-> [b \in 1 .. NBins |-> b - 1],
     right |-> [b \in 1 .. NBins |-> b]]

\* node_source: eight columns, one entry per node; no column alpha.
NodeData ==
    [x |-> [i \in 1 .. NRows |-> i - 1],
     y |-> [i \in 1 .. NRows |-> i - 1],
     sizes |-> [i \in 1 .. NRows |-> i],
     colors |-> [i \in 1 .. NRows |-> i],
     labels |-> [i \in 1 .. NRows |-> i - 1],
     degree |-> [i \in 1 .. NRows |-> i],
     betweenness |-> [i \in 1 .. NRows |-> i],
     clustering |-> [i \in 1 .. NRows |-> i]]

InitData == [sine |-> SineData, cross |-> CrossData, hist |-> HistData, node |-> NodeData]

\* The rows a source holds: the length of its first constructed column.
RowsOf(src) ==
    IF src = "hist" THEN 0 .. (NBins - 1) ELSE Rows

\* The glyph renderers and the source each was given (source=...).
RendererSource ==
    [line |-> "sine", scatter |-> "cross", quad |-> "hist",
     nodes |-> "node", labels |-> "node"]

Renderers == DOMAIN RendererSource

\* The sources whose plot carries a selection tool (box_select, tap), per scene.
Selectable(sc) ==
    CASE sc = "crossfilter" -> {"cross", "hist"}
      [] sc = "network" -> {"node"}
      [] OTHER -> {}

\* node_source.selected.js_on_change('indices', callback)
SelectionCallbacks == {"node"}

---------------------------------------------------------------------------
\* create_network_graph: the selection callback.

\* arr[i] = v on a JavaScript array (0-based i): a write past the end
\* lengthens the array and leaves the skipped elements undefined.
JsSet(arr, i, v) ==
    IF i < Len(arr)
    THEN [arr EXCEPT ![i + 1] = v]
    ELSE [k \in 1 .. (i + 1) |->
            IF k <= Len(arr) THEN arr[k] ELSE IF k = i + 1 THEN v ELSE Undefined]

\* data['alpha'] = data['alpha'] || [];
AlphaOrEmpty(cols) ==
    IF "alpha" \in DOMAIN cols THEN cols ELSE cols @@ ("alpha" :> <<>>)

RECURSIVE ResetFrom(_, _, _)
ResetFrom(cols, i, n) ==
    IF i >= n
    THEN cols
    ELSE LET c == AlphaOrEmpty(cols)
         IN ResetFrom([c EXCEPT !["alpha"] = JsSet(c["alpha"], i, AlphaReset)],
                      i + 1, n)

\* A reset loop that stops one row early.
ResetAlphasShort(cols) == ResetFrom(cols, 0, Len(cols["x"]) - 1)

\* for (let i = 0; i < data['x'].length; i++) { ...; data['alpha'][i] = 0.8; }
ResetAlphas(cols) == ResetFrom(cols, 0, Len(cols["x"]))

RECURSIVE HighlightSelected(_, _)
\* for (let i = 0; i < selected.length; i++) data['alpha'][selected[i]] = 1.0;
HighlightSelected(cols, sel) ==
    IF sel = {}
    THEN cols
    ELSE LET r == CHOOSE r \in sel : TRUE
         IN HighlightSelected(
                [cols EXCEPT !["alpha"] = JsSet(cols["alpha"], r, AlphaHighlight)],
                sel \ {r})

---------------------------------------------------------------------------
\* create_sales_dashboard, create_tabbed_dashboard: the colour of a heatmap cell.

\* Spectral6[...]: the last index of the six-colour palette, the 5 of min(5, ...).
PaletteLast == 5
\* int(val/20)
SalesStep == 20
\* The sales domain 0 .. 100 the six colours are laid over (5 steps of 20).
SalesHigh == 100
\* A correlation of 1.0, in hundredths.
CorrOne == 100
\* int((corr_val + 1) * 2.5): with corr_val in hundredths, (c + 100) / 40.
CorrStep == 40

\* What colorIdx holds before the index has been computed.
NoIdx == 0 - 1

\* Python's int() of the quotient a / b of a true division, b > 0: the
\* fraction is cut off, towards zero.
IntOfQuotient(a, b) ==
    IF a >= 0 THEN a \div b ELSE 0 - ((0 - a) \div b)

Min(a, b) == IF a <= b THEN a ELSE b
Max(a, b) == IF a >= b THEN a ELSE b

\* An index computed without the min(5, ...).
SalesColorIdxNoMin(val) == Max(0, IntOfQuotient(val, SalesStep))

\* min(5, max(0, int(val/20)))
SalesColorIdx(val) == Min(PaletteLast, Max(0, IntOfQuotient(val, SalesStep)))

\* color_idx = int((corr_val + 1) * 2.5); min(5, max(0, color_idx))
CorrColorIdx(c) == Min(PaletteLast, Max(0, IntOfQuotient(c + CorrOne, CorrStep)))

\* The values a cell is coloured for: beyond the ends of the domain too.
SalesValues == (0 - SalesMargin) .. (SalesHigh + SalesMargin)
CorrValues == (0 - CorrOne - CorrMargin) .. (CorrOne + CorrMargin)

Cells ==
    {[kind |-> "sales", val |-> v] : v \in SalesValues} \cup
    {[kind |-> "corr", val |-> c] : c \in CorrValues}

\* Outside the dashboards no cell is coloured.
NoCell == [kind |-> "none", val |-> 0]

---------------------------------------------------------------------------
\* Signal dispatch.

\* One dispatch in progress: the signal, the source it belongs to, and whether
\* the CustomJS connected to it has run.
Frame(sig, src, ran) == [sig |-> sig, src |-> src, ran |-> ran]

Top == stack[Len(stack)]

Pop(s) == SubSeq(s, 1, Len(s) - 1)

\* An emit that connects to nothing: no renderer hears of the change.
EmitUnheard(stk, src) == stk

\* source.change.emit(), called by a callback as its last statement: the
\* change signal of the source is dispatched inside the dispatch that runs
\* the callback.
Emit(stk, src) == Append(stk, Frame("change", src, TRUE))

\* The dispatches in progress that are signals of a data source (its
\* selection's 'indices' change, its own 'change'), not of a widget.
CycleDepth == Cardinality({k \in 1 .. Len(stack) : stack[k].sig \in {"indices", "change"}})

\* What a renderer of source src draws from: the columns and the selection.
View(d, sel, src) == [cols |-> d[src], sel |-> sel[src]]

\* The renderers of source src redraw; the others keep what they drew.
Redraw(d, sel, src) ==
    [r \in Renderers |->
        IF RendererSource[r] = src THEN View(d, sel, src) ELSE drawn[r]]

\* The batches of slider changes: each slider at most once, each to a value
\* other than its current one.
RECURSIVE BatchesOver(_)
BatchesOver(names) ==
    {<<>>} \cup
    UNION {UNION {{<<[slider |-> s, value |-> v]>> \o rest :
                        rest \in BatchesOver(names \ {s})} :
                    v \in SliderRange(s) \ {slider[s]}} :
            s \in names}

\* alpha=0.8 of the node glyph, in tenths.
NodeGlyphAlpha == 8

\* One attribute of a glyph: a literal value, or the name of a column of the
\* glyph's source.
Literal(v) == [kind |-> "literal", of |-> v]
ColumnRef(name) == [kind |-> "column", of |-> name]

\* nodes = p.scatter('x', 'y', size='sizes', source=node_source,
\*     fill_color=transform('colors', ...), line_color='black', line_width=1,
\*     alpha=0.8)
NodesGlyph ==
    [x |-> ColumnRef("x"),
     y |-> ColumnRef("y"),
     size |-> ColumnRef("sizes"),
     fill_color |-> ColumnRef("colors"),
     line_color |-> Literal("black"),
     line_width |-> Literal(1),
     alpha |-> Literal(NodeGlyphAlpha)]

\* The value of a glyph attribute at row i (0-based) of what the renderer
\* drew: the literal, or the entry of the column it names.
Displayed(binding, view, i) ==
    IF binding.kind = "literal" THEN binding.of ELSE view.cols[binding.of][i + 1]

\* The alpha the node renderer shows for row i.
NodeDisplayedAlpha(i) == Displayed(NodesGlyph["alpha"], drawn["nodes"], i)

---------------------------------------------------------------------------
Init ==
    /\ scene \in Scenes
    /\ data = InitData
    /\ selected = [s \in Sources |-> {}]
    /\ slider = SliderInit
    /\ stack = <<>>
    /\ batch = <<>>
    /\ batchSize = 0
    /\ recomputes = 0
    /\ emits = 0
    /\ drawn = [r \in Renderers |->
                  View(InitData, [s \in Sources |-> {}], RendererSource[r])]
    /\ cell \in IF scene = "dashboard" THEN Cells ELSE {NoCell}
    /\ colorIdx = NoIdx

\* The user moves one or more sliders in one go.
BeginBatch ==
    /\ scene = "sine"
    /\ stack = <<>>
    /\ batch = <<>>
    /\ \E b \in BatchesOver(SliderNames) \ {<<>>} :
          /\ batch' = b
          /\ batchSize' = Len(b)
    /\ recomputes' = 0
    /\ emits' = 0
    /\ UNCHANGED <<cell, colorIdx, scene, data, selected, slider, stack, drawn>>

\* The next change of the batch reaches its slider: the value is set and the
\* slider's 'value' change signal is dispatched to the callback connected to it.
SliderChange ==
    /\ scene = "sine"
    /\ stack = <<>>
    /\ batch # <<>>
    /\ slider' = [slider EXCEPT ![Head(batch).slider] = Head(batch).value]
    /\ batch' = Tail(batch)
    /\ stack' = IF Head(batch).slider \in Subscribed
                THEN <<Frame("value", "sine", FALSE)>>
                ELSE <<>>
    /\ UNCHANGED <<cell, colorIdx, scene, data, selected, batchSize, recomputes, emits, drawn>>

\* The sine callback's code, to its last statement source.change.emit().
RunSineCallback ==
    /\ stack # <<>>
    /\ Top.sig = "value"
    /\ ~Top.ran
    /\ data' = [data EXCEPT !["sine"]["y"] =
                    CallbackLoop(data["sine"]["x"], data["sine"]["y"],
                                 slider["freq"], slider["amp"], slider["phase"])]
    /\ recomputes' = recomputes + 1
    /\ emits' = emits + 1
    /\ stack' = Emit([stack EXCEPT ![Len(stack)].ran = TRUE], "sine")
    /\ UNCHANGED <<cell, colorIdx, scene, selected, slider, batch, batchSize, drawn>>

\* The user selects rows with a plot's selection tool.
Select ==
    /\ stack = <<>>
    /\ batch = <<>>
    /\ \E src \in Selectable(scene) :
       \E S \in (SUBSET RowsOf(src)) \ {selected[src]} :
          /\ selected' = [selected EXCEPT ![src] = S]
          /\ drawn' = Redraw(data, selected', src)
          /\ stack' = IF src \in SelectionCallbacks
                      THEN <<Frame("indices", src, FALSE)>>
                      ELSE <<>>
    /\ UNCHANGED <<cell, colorIdx, scene, data, slider, batch, batchSize, recomputes, emits>>

\* The network graph's selection callback, to its last statement
\* source.change.emit().
RunNodeCallback ==
    /\ stack # <<>>
    /\ Top.sig = "indices"
    /\ ~Top.ran
    /\ data' = [data EXCEPT ![Top.src] =
                    HighlightSelected(ResetAlphas(data[Top.src]), selected[Top.src])]
    /\ stack' = Emit([stack EXCEPT ![Len(stack)].ran = TRUE], Top.src)
    /\ UNCHANGED <<cell, colorIdx, scene, selected, slider, batch, batchSize, recomputes, emits,
                   drawn>>

\* source.change.emit(): the renderers of the source redraw, and emit returns.
NotifyRenderers ==
    /\ stack # <<>>
    /\ Top.sig = "change"
    /\ drawn' = Redraw(data, selected, Top.src)
    /\ stack' = Pop(stack)
    /\ UNCHANGED <<cell, colorIdx, scene, data, selected, slider, batch, batchSize, recomputes,
                   emits>>

\* The callback has returned: the dispatch of the widget's or the selection's
\* change signal ends.
Return ==
    /\ stack # <<>>
    /\ Top.sig \in {"value", "indices"}
    /\ Top.ran
    /\ stack' = Pop(stack)
    /\ UNCHANGED <<cell, colorIdx, scene, data, selected, slider, batch, batchSize, recomputes,
                   emits, drawn>>

\* The list comprehension of create_sales_dashboard computes a cell's colour.
ColorSalesCell ==
    /\ scene = "dashboard"
    /\ cell.kind = "sales"
    /\ colorIdx = NoIdx
    /\ colorIdx' = SalesColorIdx(cell.val)
    /\ UNCHANGED <<scene, data, selected, slider, stack, batch, batchSize,
                   recomputes, emits, drawn, cell>>

\* The loop body of create_tabbed_dashboard computes a cell's colour.
ColorCorrCell ==
    /\ scene = "dashboard"
    /\ cell.kind = "corr"
    /\ colorIdx = NoIdx
    /\ colorIdx' = CorrColorIdx(cell.val)
    /\ UNCHANGED <<scene, data, selected, slider, stack, batch, batchSize,
                   recomputes, emits, drawn, cell>>

Next ==
    \/ BeginBatch
    \/ SliderChange
    \/ RunSineCallback
    \/ Select
    \/ RunNodeCallback
    \/ NotifyRenderers
    \/ Return
    \/ ColorSalesCell
    \/ ColorCorrCell

Spec == Init /\ [][Next]_vars

---------------------------------------------------------------------------
\* What the callbacks are expected to leave behind, written out from the
\* formulas the claims state.

\* amp * sin(freq * x + phase) at row i (0-based) of the evenly spaced x.
ExpectedY(sl) == [i \in 1 .. NRows |-> sl["amp"] * SinQ(sl["freq"] * (i - 1) + sl["phase"])]

\* 1.0 for a selected row and 0.8 for any other, in tenths.
ExpectedAlpha(sel) == [i \in 1 .. NRows |-> IF (i - 1) \in sel THEN 10 ELSE 8]

Quiet == stack = <<>>

---------------------------------------------------------------------------
\* C1: in every reachable state every column of every data source has
\* exactly as many entries as the source has rows, so all columns of a
\* source have one length.  This covers the sine callback's in-place writes
\* to y and the selection callback's writes to alpha.
C1_EqualLength ==
    \A src \in Sources :
        /\ \A c \in DOMAIN data[src] : Len(data[src][c]) = Cardinality(RowsOf(src))
        /\ \A c1, c2 \in DOMAIN data[src] : Len(data[src][c1]) = Len(data[src][c2])

\* The selection callback has written alpha for a non-empty selection.
C1_Witness ==
    /\ scene = "network"
    /\ Quiet
    /\ "alpha" \in DOMAIN data["node"]
    /\ selected["node"] # {}

\* C3 (as stated): once a batch of slider changes has been handled, the
\* recompute ran exactly once and the source's change was emitted exactly once.
C3_OncePerBatch ==
    (Quiet /\ batch = <<>> /\ batchSize > 0) => (recomputes = 1 /\ emits = 1)

\* C3 (amended): the recompute runs once per slider change, each run followed
\* by one change signal that the line renderer draws; whenever no dispatch is
\* in progress the runs so far equal the changes applied so far, y holds the
\* values computed from the current values of all three sliders, and the
\* line renderer has drawn exactly that y.
C3_OncePerChange ==
    Quiet =>
        /\ recomputes = batchSize - Len(batch)
        /\ emits = recomputes
        /\ data["sine"]["y"] = ExpectedY(slider)
        /\ drawn["line"].cols = data["sine"]

\* A batch that changed all three sliders has been handled in three runs.
C3_Witness ==
    /\ Quiet
    /\ batch = <<>>
    /\ batchSize = 3
    /\ recomputes = 3
    /\ emits = 3

\* C5 (as stated): a selection made on the scatter plot changes the
\* selection or the drawn state of the histogram, and a selection made on
\* the histogram changes the selection or the drawn state of the scatter plot.
C5_PlotsFilterEachOther ==
    [][/\ (selected["cross"]' # selected["cross"]) =>
            (selected["hist"]' # selected["hist"] \/ drawn["quad"]' # drawn["quad"])
       /\ (selected["hist"]' # selected["hist"]) =>
            (selected["cross"]' # selected["cross"] \/ drawn["scatter"]' # drawn["scatter"])
      ]_vars

\* C7 (as stated): every source has, in every reachable state, exactly the
\* column names it was created with.
C7_FixedSchema ==
    \A src \in Sources : DOMAIN data[src] = DOMAIN InitData[src]

\* C8: every run of the sine callback leaves in y, at every row, the value
\* amp * sin(freq * x + phase) for the current values of all three sliders,
\* whichever slider's change started it, and changes nothing else: column
\* x, the column names, the row count, every other source and every
\* selection stay as they were.
C8_RecomputeReadsAllInputs ==
    [][(recomputes' = recomputes + 1) =>
          /\ data["sine"]["y"]' = ExpectedY(slider')
          /\ slider' = slider
          /\ data["sine"]["x"]' = data["sine"]["x"]
          /\ DOMAIN data["sine"]' = DOMAIN data["sine"]
          /\ Len(data["sine"]["y"]') = Len(data["sine"]["y"])
          /\ \A src \in Sources \ {"sine"} : data[src]' = data[src]
          /\ selected' = selected
      ]_vars

\* One slider alone was changed while the other two stood at values other
\* than their initial ones, and y shows all three.
C8_Witness ==
    /\ Quiet
    /\ batch = <<>>
    /\ batchSize = 1
    /\ recomputes = 1
    /\ slider = [freq |-> 2, amp |-> 2, phase |-> 1]
    /\ data["sine"]["y"] = ExpectedY(slider)
    /\ data["sine"]["y"] # InitialY

\* C10 (as stated): a mutation issued from inside a handler of a source's
\* notification is put off until the cycle has ended, so no more than one
\* notification cycle of a data source is ever in progress.
C10_ReentrantDeferred == CycleDepth <= 1

\* C10 (amended): the selection callback's writes are applied at once, in
\* place, while the selection's change is still being dispatched, and the
\* change signal it emits is dispatched inside that cycle: at most two
\* cycles of a data source are in progress, once the callback has run the
\* alpha column already holds the highlight of the current selection, the
\* renderers of the source have drawn it before the selection's cycle
\* returns, and with no dispatch in progress every renderer has drawn the
\* current state of its source.
C10_AppliedImmediately ==
    /\ CycleDepth <= 2
    /\ (stack # <<>> /\ stack[1].sig = "indices" /\ stack[1].ran) =>
          /\ "alpha" \in DOMAIN data["node"]
          /\ data["node"]["alpha"] = ExpectedAlpha(selected["node"])
    /\ (Len(stack) = 1 /\ stack[1].sig = "indices" /\ stack[1].ran) =>
          \A r \in {"nodes", "labels"} : drawn[r] = View(data, selected, "node")
    /\ Quiet => \A r \in Renderers : drawn[r] = View(data, selected, RendererSource[r])

\* The change signal emitted by the selection callback is being dispatched
\* inside the selection's own cycle, with the alpha column already written.
C10_Witness ==
    /\ scene = "network"
    /\ CycleDepth = 2
    /\ "alpha" \in DOMAIN data["node"]
    /\ selected["node"] # {}

---------------------------------------------------------------------------
\* The bucket formula the mapper claims state, written out:
\* floor((v - low) / (high - low) * (K - 1)), clamped to 0 .. K-1.
\* (\div rounds down, also below zero.)
FormulaBucket(v, low, high, K) ==
    LET raw == ((v - low) * (K - 1)) \div (high - low)
    IN IF raw < 0 THEN 0 ELSE IF raw > K - 1 THEN K - 1 ELSE raw

\* Bounds of the domains and palettes the formula's own properties are
\* checked over.
MaxPalette == 4
MaxDomain == 3

\* For every domain low < high and palette size K of the bounded range: the
\* index lies in 0 .. K-1, low maps to 0, high to K-1, values below low to
\* 0, values above high to K-1, and the index never falls as v grows.
FormulaProperties ==
    \A low \in (0 - MaxDomain) .. MaxDomain :
    \A high \in (low + 1) .. (MaxDomain + 1) :
    \A K \in 1 .. MaxPalette :
        /\ FormulaBucket(low, low, high, K) = 0
        /\ FormulaBucket(high, low, high, K) = K - 1
        /\ \A v \in (low - 2) .. (high + 2) :
              /\ FormulaBucket(v, low, high, K) \in 0 .. (K - 1)
              /\ (v < low) => FormulaBucket(v, low, high, K) = 0
              /\ (v > high) => FormulaBucket(v, low, high, K) = K - 1
              /\ FormulaBucket(v, low, high, K) <= FormulaBucket(v + 1, low, high, K)

\* C11: the index the dashboards compute for a heatmap cell is the bucket of
\* the formula floor((v - low) / (high - low) * (K - 1)) clamped to 0 .. K-1,
\* with K = 6 and domain 0 .. 100 for the sales cells and -1 .. 1 for the
\* correlation cells, for every value within and beyond the domain; it lies
\* in 0 .. 5, is 0 at and below low, 5 at and above high, and never falls as
\* the value grows.  The formula itself has these properties for every
\* domain and palette size of the bounded range.
C11_BucketMatchesFormula ==
    (scene = "dashboard") =>
        /\ (colorIdx # NoIdx /\ cell.kind = "sales") =>
              /\ colorIdx = FormulaBucket(cell.val, 0, SalesHigh, PaletteLast + 1)
              /\ colorIdx \in 0 .. PaletteLast
              /\ (cell.val <= 0) => colorIdx = 0
              /\ (cell.val >= SalesHigh) => colorIdx = PaletteLast
        /\ (colorIdx # NoIdx /\ cell.kind = "corr") =>
              /\ colorIdx = FormulaBucket(cell.val, 0 - CorrOne, CorrOne, PaletteLast + 1)
              /\ colorIdx \in 0 .. PaletteLast
              /\ (cell.val <= 0 - CorrOne) => colorIdx = 0
              /\ (cell.val >= CorrOne) => colorIdx = PaletteLast
        /\ (colorIdx # NoIdx) =>
              /\ \A v \in SalesValues : SalesColorIdx(v) <= SalesColorIdx(v + 1)
              /\ \A c \in CorrValues : CorrColorIdx(c) <= CorrColorIdx(c + 1)
              /\ FormulaProperties

\* A sales cell above the domain has been given the last colour.
C11_Witness ==
    /\ scene = "dashboard"
    /\ cell.kind = "sales"
    /\ cell.val > SalesHigh
    /\ colorIdx = PaletteLast

\* C15 (as stated): once the selection callback has run and no dispatch is in
\* progress, the alpha column holds 1.0 at exactly the rows of the current
\* selection and 0.8 at every other row, one entry per row, and the node
\* renderer shows that alpha for every row.
C15_HighlightDisplayed ==
    (scene = "network" /\ Quiet /\ "alpha" \in DOMAIN data["node"]) =>
        /\ Len(data["node"]["alpha"]) = NRows
        /\ data["node"]["alpha"] = ExpectedAlpha(selected["node"])
        /\ \A i \in Rows :
              NodeDisplayedAlpha(i) = ExpectedAlpha(selected["node"])[i + 1]

====
